---------------------------- MODULE Spec2Model ----------------------------
(***************************************************************************)
(* A state-machine model of GWFrames' Scri.hpp objects (DataGrid, Modes,   *)
(* SliceOfScri, SliceModes, Scri, SuperMomenta) and of the                 *)
(* WaveformAtAPointFT constructors.                                        *)
(*                                                                         *)
(* Each family of objects has its own specification (SpecSlice, SpecGrid,  *)
(* SpecModes, SpecScri, SpecFT); the variables of the other families stay  *)
(* at their initial values in it.                                          *)
(*                                                                         *)
(* Complex mode / grid data are abstracted to small integer tokens: the    *)
(* properties below depend on which storage a call reads or writes and on  *)
(* the container sizes, not on the numerical values.  Times are integers.  *)
(***************************************************************************)
EXTENDS Integers, Sequences, FiniteSets, TLC

VARIABLES
  \* SliceOfScri<D>
  slice,        \* the seven public fields psi0..sigmadot (data tokens)
  retC,         \* outcome of the last call of the const operator[]
  retM,         \* outcome of the last call of the non-const operator[]
  \* DataGrid
  grid,         \* [s, n_theta, n_phi, size]; size = data.size()
  \* Modes
  modes,        \* [s, ellMax, size]; size = data.size()
  powReq,       \* the grid Modes::pow last requested
  \* Scri, SuperMomenta and the caller's by-reference arguments
  scri,         \* [built, t, slices]
  scriRefs,     \* indices of slices the non-const operator[] gave a reference to
  sm,           \* [built, t, Psi]
  smRefs,       \* indices of mode fields the non-const operator[] gave a reference to
  OneOverK,     \* caller's Modes passed by reference to MoreschiIteration
  delta,        \* caller's Modes passed by reference to MoreschiIteration
  call,         \* the last public call: [op, ret, err, args]
  \* WaveformAtAPointFT constructors
  ftIn,         \* the constructor's arguments
  ftPc,         \* position inside the constructor
  NewTimes,     \* the resampled times
  RealT,        \* the time-domain data, empty until the waveform is interpolated
  InitRealT,    \* the interpolated samples before the detector response
  winJ,         \* the window loop's index j
  mFreqs,       \* the number of frequencies TimeToPositiveFrequencies returned
  ftErr,        \* [thrown, at]: the exception thrown and the check that threw
  ftObj,        \* the constructed object, or NoObject
  \* WaveformAtAPointFT::Normalize and Match
  wA,           \* the waveform Match is called on (*this)
  wB,           \* the waveform B
  timeOffset,   \* the caller's three output arguments
  phaseOffset,
  match,
  matchCall     \* the last call of Normalize or Match and its outcome

sliceVars == <<slice, retC, retM>>
gridVars  == <<grid>>
modesVars == <<modes, powReq>>
scriVars  == <<scri, scriRefs, sm, smRefs, OneOverK, delta, call>>
ftVars    == <<ftIn, ftPc, NewTimes, RealT, InitRealT, winJ, mFreqs, ftErr,
               ftObj>>
matchVars == <<wA, wB, timeOffset, phaseOffset, match, matchCall>>
vars      == <<sliceVars, gridVars, modesVars, scriVars, ftVars, matchVars>>

\* The other families' objects are untouched.
SliceFrame == UNCHANGED <<gridVars, modesVars, scriVars, ftVars, matchVars>>

\* The other families' objects are untouched.
GridFrame == UNCHANGED <<sliceVars, modesVars, scriVars, ftVars, matchVars>>

\* The other families' objects are untouched.
ModesFrame == UNCHANGED <<sliceVars, gridVars, scriVars, ftVars, matchVars>>

\* The other families' objects are untouched.
ScriFrame == UNCHANGED <<sliceVars, gridVars, modesVars, ftVars, matchVars>>

\* The other families' objects are untouched.
MatchFrame == UNCHANGED <<sliceVars, gridVars, modesVars, scriVars, ftVars>>

\* The other families' objects are untouched.
FTFrame == UNCHANGED <<sliceVars, gridVars, modesVars, scriVars, matchVars>>

-----------------------------------------------------------------------------
(* Bounds of the model *)

MaxVal   == 1   \* data tokens are 0..MaxVal
MaxIndex == 9   \* indices passed to SliceOfScri::operator[] are 0..MaxIndex
MaxSize  == 5   \* sizes passed to DataGrid(size) and Modes(size)
MaxDim   == 2   \* arguments of SetNTheta / SetNPhi are -1..MaxDim
MaxEll   == 2   \* arguments of SetEllMax are -1..MaxEll
MaxSpin  == 2   \* arguments of SetSpin are -MaxSpin..MaxSpin
MaxP     == 2   \* exponents passed to Modes::pow are -MaxP..MaxP

Val == 0..MaxVal

-----------------------------------------------------------------------------
(* SliceOfScri<D>: integer-indexed access *)

FieldNames == <<"psi0", "psi1", "psi2", "psi3", "psi4", "sigma", "sigmadot">>

NoCall == [called |-> FALSE, idx |-> 0, kind |-> "none", what |-> "none"]

Returned(i, f) == [called |-> TRUE, idx |-> i, kind |-> "ref", what |-> f]

Thrown(i, e) == [called |-> TRUE, idx |-> i, kind |-> "throw", what |-> e]

\* A plausible slip: the last branch tests i > 7 instead of falling through at 7.
SliceIndexConstOffByOne(i) ==
  IF i = 0 THEN Returned(i, "psi0")
  ELSE IF i = 1 THEN Returned(i, "psi1")
  ELSE IF i = 2 THEN Returned(i, "psi2")
  ELSE IF i = 3 THEN Returned(i, "psi3")
  ELSE IF i = 4 THEN Returned(i, "psi4")
  ELSE IF i = 5 THEN Returned(i, "sigma")
  ELSE IF i <= 7 THEN Returned(i, "sigmadot")
  ELSE Thrown(i, "IndexOutOfBounds")

\* const D& operator[](const unsigned int i) const
SliceIndexConst(i) ==
  IF i = 0 THEN Returned(i, "psi0")
  ELSE IF i = 1 THEN Returned(i, "psi1")
  ELSE IF i = 2 THEN Returned(i, "psi2")
  ELSE IF i = 3 THEN Returned(i, "psi3")
  ELSE IF i = 4 THEN Returned(i, "psi4")
  ELSE IF i = 5 THEN Returned(i, "sigma")
  ELSE IF i = 6 THEN Returned(i, "sigmadot")
  ELSE Thrown(i, "IndexOutOfBounds")

\* D& operator[](const unsigned int i)
SliceIndexMutable(i) ==
  IF i = 0 THEN Returned(i, "psi0")
  ELSE IF i = 1 THEN Returned(i, "psi1")
  ELSE IF i = 2 THEN Returned(i, "psi2")
  ELSE IF i = 3 THEN Returned(i, "psi3")
  ELSE IF i = 4 THEN Returned(i, "psi4")
  ELSE IF i = 5 THEN Returned(i, "sigma")
  ELSE IF i = 6 THEN Returned(i, "sigmadot")
  ELSE Thrown(i, "IndexOutOfBounds")

\* The public data members of a freshly built slice.
SliceInit == [f \in {FieldNames[k] : k \in 1..7} |-> 0]

IndexConst(i) ==
  /\ retC' = SliceIndexConst(i)
  /\ UNCHANGED <<slice, retM>>
  /\ SliceFrame

IndexMutable(i) ==
  /\ retM' = SliceIndexMutable(i)
  /\ UNCHANGED <<slice, retC>>
  /\ SliceFrame

\* The caller assigns through the D& the non-const overload returned.
SliceWriteRef(v) ==
  /\ retM.kind = "ref"
  /\ slice' = [slice EXCEPT ![retM.what] = v]
  /\ UNCHANGED <<retC, retM>>
  /\ SliceFrame

-----------------------------------------------------------------------------
(* DataGrid *)

RECURSIVE ISqrtFrom(_, _)
ISqrtFrom(n, r) == IF (r + 1) * (r + 1) > n THEN r ELSE ISqrtFrom(n, r + 1)

\* int(std::sqrt(size)): the double square root, truncated by the int member.
ISqrt(n) == ISqrtFrom(n, 0)

\* DataGrid(const int size=0)
DataGridOfSize(size) ==
  [s |-> 0, n_theta |-> ISqrt(size), n_phi |-> ISqrt(size), size |-> size]

\* DataGrid(const DataGrid& A)
DataGridCopy(A) ==
  [s |-> A.s, n_theta |-> A.n_theta, n_phi |-> A.n_phi, size |-> A.size]

GridConstruct(size) ==
  /\ grid' = DataGridOfSize(size)
  /\ GridFrame

GridCopy ==
  /\ grid' = DataGridCopy(grid)
  /\ GridFrame

GridSetSpin(ess) ==
  /\ grid' = [grid EXCEPT !.s = ess]
  /\ GridFrame

GridSetNTheta(N_theta) ==
  /\ grid' = [grid EXCEPT !.n_theta = N_theta]
  /\ GridFrame

GridSetNPhi(N_phi) ==
  /\ grid' = [grid EXCEPT !.n_phi = N_phi]
  /\ GridFrame

-----------------------------------------------------------------------------
(* Modes *)

\* Modes(const int size=0)
ModesOfSize(size) == [s |-> 0, ellMax |-> 0, size |-> size]

\* Modes(const Modes& A)
ModesCopyOf(A) == [s |-> A.s, ellMax |-> A.ellMax, size |-> A.size]

\* The dimension Modes::pow passes twice to DataGrid(*this, N, N).
PowGridSize(ellMax, p) == 2 * ellMax * p + 1

NoPow == [called |-> FALSE, ellMax |-> 0, p |-> 0, n_theta |-> 0, n_phi |-> 0]

ModesConstruct(size) ==
  /\ modes' = ModesOfSize(size)
  /\ UNCHANGED powReq
  /\ ModesFrame

ModesCopy ==
  /\ modes' = ModesCopyOf(modes)
  /\ UNCHANGED powReq
  /\ ModesFrame

ModesSetSpin(ess) ==
  /\ modes' = [modes EXCEPT !.s = ess]
  /\ UNCHANGED powReq
  /\ ModesFrame

ModesSetEllMax(ell) ==
  /\ modes' = [modes EXCEPT !.ellMax = ell]
  /\ UNCHANGED powReq
  /\ ModesFrame

\* Modes pow(const int p) const: the grid it asks for; *this is const.
ModesPow(p) ==
  /\ powReq' = [called |-> TRUE, ellMax |-> modes.ellMax, p |-> p,
                n_theta |-> PowGridSize(modes.ellMax, p),
                n_phi |-> PowGridSize(modes.ellMax, p)]
  /\ UNCHANGED modes
  /\ ModesFrame

-----------------------------------------------------------------------------
(* Scri and SuperMomenta *)

MaxTime == 1   \* times are 0..MaxTime, so a history holds at most MaxTime+1 of them

RECURSIVE SortedSeq(_)
SortedSeq(S) ==
  IF S = {} THEN <<>>
  ELSE LET m == CHOOSE x \in S : \A y \in S : x <= y
       IN  <<m>> \o SortedSeq(S \ {m})

\* Waveform::T() of an input history: a strictly increasing time array.
TimeArrays == {SortedSeq(S) : S \in SUBSET (0..MaxTime)}

\* Vectors of Modes a caller can pass: every length up to MaxTime+1.
ModesVectors == UNION {[1..n -> Val] : n \in 0..(MaxTime + 1)}

StrictlyIncreasing(T) == \A i \in 1..(Len(T) - 1) : T[i] < T[i + 1]

NoScri == [built |-> FALSE, t |-> <<>>, slices |-> <<>>]

NoSM == [built |-> FALSE, t |-> <<>>, Psi |-> <<>>]

Void == [kind |-> "void", v |-> 0]

NoArgs == <<>>

Call(op, idx, via, ret, err, args) ==
  [op |-> op, idx |-> idx, via |-> via, ret |-> ret, err |-> err, args |-> args]

NoCallYet == Call("none", 0, "none", Void, "none", NoArgs)

\* No exception has ended the run.
Running == call.err = "none"

\* A plausible slip: only the lengths of the six time arrays are compared.
ScriFromHistoriesLengthsOnly(Ts, L) ==
  IF \A k \in 1..6 : Len(Ts[k]) = Len(Ts[1])
  THEN [err |-> "none",
        scri |-> [built |-> TRUE, t |-> Ts[1],
                  slices |-> [i \in 1..Len(Ts[1]) |-> [ellMax |-> L, val |-> 0]]]]
  ELSE [err |-> "ShapeMismatch", scri |-> NoScri]

\* Scri(psi0, psi1, psi2, psi3, psi4, sigma): Ts are the six time arrays, L the
\* ellMax of the data; every slice is a SliceModes(L) filled from the histories.
ScriFromHistories(Ts, L) ==
  IF \A k \in 1..6 : Ts[k] = Ts[1]
  THEN [err |-> "none",
        scri |-> [built |-> TRUE, t |-> Ts[1],
                  slices |-> [i \in 1..Len(Ts[1]) |-> [ellMax |-> L, val |-> 0]]]]
  ELSE [err |-> "ShapeMismatch", scri |-> NoScri]

\* SliceModes::SuperMomentum() const: a function of the slice's fields.
SuperMomentum(S) == S.val

\* The constructor runs first, on the input time series.
ScriConstruct ==
  /\ call = NoCallYet
  /\ \E Ts \in [1..6 -> TimeArrays], L \in 0..MaxEll :
       LET r == ScriFromHistories(Ts, L)
       IN  /\ scri' = r.scri
           /\ call' = Call("Scri", 0, "none", Void, r.err, Ts)
  /\ UNCHANGED <<scriRefs, sm, smRefs, OneOverK, delta>>
  /\ ScriFrame

\* Scri(const Scri& S) : t(S.t), slices(S.slices)
ScriCopy ==
  /\ Running /\ scri.built
  /\ scri' = [built |-> TRUE, t |-> scri.t, slices |-> scri.slices]
  /\ call' = Call("Scri.Copy", 0, "none", Void, "none", NoArgs)
  /\ UNCHANGED <<scriRefs, sm, smRefs, OneOverK, delta>>
  /\ ScriFrame

\* int NTimes() const { return t.size(); }
ScriNTimes ==
  /\ Running /\ scri.built
  /\ call' = Call("Scri.NTimes", 0, "none", [kind |-> "int", v |-> Len(scri.t)],
                  "none", NoArgs)
  /\ UNCHANGED <<scri, scriRefs, sm, smRefs, OneOverK, delta>>
  /\ ScriFrame

\* const std::vector<double> T() const { return t; }
ScriT ==
  /\ Running /\ scri.built
  /\ call' = Call("Scri.T", 0, "none", [kind |-> "copy", v |-> scri.t],
                  "none", NoArgs)
  /\ UNCHANGED <<scri, scriRefs, sm, smRefs, OneOverK, delta>>
  /\ ScriFrame

\* A plausible slip: the const overload hands out the stored slice itself.
ScriIndexConstByRef(i) ==
  /\ Running /\ scri.built /\ i \in 1..Len(scri.slices)
  /\ call' = Call("Scri.IndexConst", i, "Scri.IndexConst",
                  [kind |-> "ref", v |-> scri.slices[i]], "none", NoArgs)
  /\ UNCHANGED <<scri, scriRefs, sm, smRefs, OneOverK, delta>>
  /\ ScriFrame

\* const SliceModes operator[](const unsigned int i) const { return slices[i]; }
\* (i is the 1-based position of C++ index i-1; only indices inside slices)
ScriIndexConst(i) ==
  /\ Running /\ scri.built /\ i \in 1..Len(scri.slices)
  /\ call' = Call("Scri.IndexConst", i, "Scri.IndexConst",
                  [kind |-> "copy", v |-> scri.slices[i]], "none", NoArgs)
  /\ UNCHANGED <<scri, scriRefs, sm, smRefs, OneOverK, delta>>
  /\ ScriFrame

\* SliceModes& operator[](const unsigned int i) { return slices[i]; }
ScriIndexMutable(i) ==
  /\ Running /\ scri.built /\ i \in 1..Len(scri.slices)
  /\ call' = Call("Scri.IndexMutable", i, "Scri.IndexMutable",
                  [kind |-> "ref", v |-> scri.slices[i]], "none", NoArgs)
  /\ scriRefs' = scriRefs \cup {i}
  /\ UNCHANGED <<scri, sm, smRefs, OneOverK, delta>>
  /\ ScriFrame

\* The caller assigns to what Scri::operator[] returned: through a reference
\* the stored slice changes, a returned copy is the caller's own.
ScriUseReturned(d) ==
  /\ Running /\ scri.built
  /\ call.via \in {"Scri.IndexConst", "Scri.IndexMutable"}
  /\ IF call.ret.kind = "ref"
     THEN /\ scri' = [scri EXCEPT !.slices[call.idx].val = d]
          /\ call' = Call("Scri.WriteRef", call.idx, call.via,
                          [kind |-> "ref", v |-> [call.ret.v EXCEPT !.val = d]],
                          "none", NoArgs)
     ELSE /\ UNCHANGED scri
          /\ call' = Call("Scri.WriteCopy", call.idx, call.via,
                          [kind |-> "copy", v |-> [call.ret.v EXCEPT !.val = d]],
                          "none", NoArgs)
  /\ UNCHANGED <<scriRefs, sm, smRefs, OneOverK, delta>>
  /\ ScriFrame

\* SliceModes BMSTransformation(const double& u0, const ThreeVector& v,
\*                              const Modes& delta) const
\* returns a new slice; a boost with norm >= 1 is a domain error.
ScriBMSTransformation(subluminal, d) ==
  /\ Running /\ scri.built
  /\ call' = IF subluminal
             THEN Call("Scri.BMSTransformation", 0, "none",
                       [kind |-> "value", v |-> d], "none", NoArgs)
             ELSE Call("Scri.BMSTransformation", 0, "none", Void,
                       "DomainError", NoArgs)
  /\ UNCHANGED <<scri, scriRefs, sm, smRefs, OneOverK, delta>>
  /\ ScriFrame

\* void SliceModes::MoreschiIteration(Modes& OneOverK_ip1, Modes& delta_ip1) const
\* called on slice i of the Scri; k and d are the values the step computes.
SliceMoreschiIteration(i, k, d) ==
  /\ Running /\ scri.built /\ i \in 1..Len(scri.slices)
  /\ OneOverK' = k
  /\ delta' = d
  /\ call' = Call("SliceModes.MoreschiIteration", i, "none", Void, "none", NoArgs)
  /\ UNCHANGED <<scri, scriRefs, sm, smRefs>>
  /\ ScriFrame

-----------------------------------------------------------------------------
(* SuperMomenta *)

\* SuperMomenta(const unsigned int size) : t(size), Psi(size)
SuperMomentaOfSize(size) ==
  [built |-> TRUE, t |-> [i \in 1..size |-> 0], Psi |-> [i \in 1..size |-> 0]]

\* SuperMomenta(const SuperMomenta& S) : t(S.t), Psi(S.Psi)
SuperMomentaCopy(S) == [built |-> TRUE, t |-> S.t, Psi |-> S.Psi]

\* SuperMomenta(const std::vector<double>& T, const std::vector<Modes>& psi)
\*   : t(T), Psi(psi)
SuperMomentaOfVectors(T, psi) == [built |-> TRUE, t |-> T, Psi |-> psi]

\* SuperMomenta(const Scri& scri): one supermomentum field per time of scri.
SuperMomentaOfScri(S) ==
  [built |-> TRUE, t |-> S.t,
   Psi |-> [i \in 1..Len(S.slices) |-> SuperMomentum(S.slices[i])]]

SMConstructSize(size) ==
  /\ Running /\ ~sm.built /\ ~scri.built
  /\ sm' = SuperMomentaOfSize(size)
  /\ call' = Call("SuperMomenta(size)", 0, "none", Void, "none", NoArgs)
  /\ UNCHANGED <<scri, scriRefs, smRefs, OneOverK, delta>>
  /\ ScriFrame

SMConstructVectors ==
  /\ Running /\ ~sm.built /\ ~scri.built
  /\ \E T \in TimeArrays, psi \in ModesVectors :
       sm' = SuperMomentaOfVectors(T, psi)
  /\ call' = Call("SuperMomenta(T,psi)", 0, "none", Void, "none", NoArgs)
  /\ UNCHANGED <<scri, scriRefs, smRefs, OneOverK, delta>>
  /\ ScriFrame

\* The run goes on with the SuperMomenta: the Scri it was derived from is not
\* used again and leaves the state.
SMConstructScri ==
  /\ Running /\ ~sm.built /\ scri.built
  /\ sm' = SuperMomentaOfScri(scri)
  /\ scri' = NoScri
  /\ scriRefs' = {}
  /\ call' = Call("SuperMomenta(scri)", 0, "none", Void, "none", NoArgs)
  /\ UNCHANGED <<smRefs, OneOverK, delta>>
  /\ ScriFrame

SMCopy ==
  /\ Running /\ sm.built
  /\ sm' = SuperMomentaCopy(sm)
  /\ call' = Call("SuperMomenta.Copy", 0, "none", Void, "none", NoArgs)
  /\ UNCHANGED <<scri, scriRefs, smRefs, OneOverK, delta>>
  /\ ScriFrame

\* int NTimes() const { return t.size(); }
SMNTimes ==
  /\ Running /\ sm.built
  /\ call' = Call("SuperMomenta.NTimes", 0, "none",
                  [kind |-> "int", v |-> Len(sm.t)], "none", NoArgs)
  /\ UNCHANGED <<scri, scriRefs, sm, smRefs, OneOverK, delta>>
  /\ ScriFrame

\* const std::vector<double> T() const { return t; }
SMT ==
  /\ Running /\ sm.built
  /\ call' = Call("SuperMomenta.T", 0, "none", [kind |-> "copy", v |-> sm.t],
                  "none", NoArgs)
  /\ UNCHANGED <<scri, scriRefs, sm, smRefs, OneOverK, delta>>
  /\ ScriFrame

\* const Modes operator[](const unsigned int i) const { return Psi[i]; }
SMIndexConst(i) ==
  /\ Running /\ sm.built /\ i \in 1..Len(sm.Psi)
  /\ call' = Call("SuperMomenta.IndexConst", i, "SuperMomenta.IndexConst",
                  [kind |-> "copy", v |-> sm.Psi[i]], "none", NoArgs)
  /\ UNCHANGED <<scri, scriRefs, sm, smRefs, OneOverK, delta>>
  /\ ScriFrame

\* Modes& operator[](const unsigned int i) { return Psi[i]; }
SMIndexMutable(i) ==
  /\ Running /\ sm.built /\ i \in 1..Len(sm.Psi)
  /\ call' = Call("SuperMomenta.IndexMutable", i, "SuperMomenta.IndexMutable",
                  [kind |-> "ref", v |-> sm.Psi[i]], "none", NoArgs)
  /\ smRefs' = smRefs \cup {i}
  /\ UNCHANGED <<scri, scriRefs, sm, OneOverK, delta>>
  /\ ScriFrame

\* The caller assigns to what SuperMomenta::operator[] returned.
SMUseReturned(d) ==
  /\ Running /\ sm.built
  /\ call.via \in {"SuperMomenta.IndexConst", "SuperMomenta.IndexMutable"}
  /\ IF call.ret.kind = "ref"
     THEN /\ sm' = [sm EXCEPT !.Psi[call.idx] = d]
          /\ call' = Call("SuperMomenta.WriteRef", call.idx, call.via,
                          [kind |-> "ref", v |-> d], "none", NoArgs)
     ELSE /\ UNCHANGED sm
          /\ call' = Call("SuperMomenta.WriteCopy", call.idx, call.via,
                          [kind |-> "copy", v |-> d], "none", NoArgs)
  /\ UNCHANGED <<scri, scriRefs, smRefs, OneOverK, delta>>
  /\ ScriFrame

\* Modes BMSTransform(const Modes& OneOverK, const Modes& delta) const
SMBMSTransform(d) ==
  /\ Running /\ sm.built
  /\ call' = Call("SuperMomenta.BMSTransform", 0, "none",
                  [kind |-> "value", v |-> d], "none", NoArgs)
  /\ UNCHANGED <<scri, scriRefs, sm, smRefs, OneOverK, delta>>
  /\ ScriFrame

\* A plausible slip: the iteration stores its transformed field back in Psi.
SMMoreschiIterationInPlace(k, d) ==
  /\ Running /\ sm.built
  /\ OneOverK' = k
  /\ delta' = d
  /\ sm' = [sm EXCEPT !.Psi = [i \in 1..Len(sm.Psi) |-> d]]
  /\ call' = Call("SuperMomenta.MoreschiIteration", 0, "none", Void, "none",
                  NoArgs)
  /\ UNCHANGED <<scri, scriRefs, smRefs>>
  /\ ScriFrame

\* void MoreschiIteration(Modes& OneOverK, Modes& delta) const
\* k and d are the corrected values the step computes.
SMMoreschiIteration(k, d) ==
  /\ Running /\ sm.built
  /\ OneOverK' = k
  /\ delta' = d
  /\ call' = Call("SuperMomenta.MoreschiIteration", 0, "none", Void, "none",
                  NoArgs)
  /\ UNCHANGED <<scri, scriRefs, sm, smRefs>>
  /\ ScriFrame

-----------------------------------------------------------------------------
(* WaveformAtAPointFT: the two constructors *)

MaxT0     == 1   \* W.T(0) is 0..MaxT0
MaxSpan   == 4   \* W.T().back() - W.T(0) is 0..MaxSpan
MaxDt     == 2   \* Dt is 1..MaxDt
MaxDir    == 3   \* Direction.size() is 0..MaxDir
MaxWindow == 9   \* WindowBeginTime and WindowEndTime are -1..MaxWindow
MaxExtra  == 1   \* ExtraZeroPadPowers is 0..MaxExtra
MaxCycles == 1   \* WindowNCycles is 0..MaxCycles
MaxAngle  == 1   \* Vartheta and Varphi are 0..MaxAngle
MaxUBPow  == 1   \* values of NPow tried where its conversion is undefined
MaxSample == 1   \* the interpolated waveform's level h is 0..MaxSample

NoObject == [built |-> FALSE]

NoError == [thrown |-> "none", at |-> 0]

NoFTArgs == [ctor |-> "none"]

OldArgs ==
  [ctor : {"old"}, T0 : 0..MaxT0, span : 0..MaxSpan, Dt : 1..MaxDt,
   Vartheta : 0..MaxAngle, Varphi : 0..MaxAngle,
   WindowNCycles : 0..MaxCycles, ExtraZeroPadPowers : 0..MaxExtra]

NewArgs ==
  [ctor : {"new"}, T0 : 0..MaxT0, span : 0..MaxSpan, Dt : 1..MaxDt,
   dirSize : 0..MaxDir,
   WindowBeginTime : (-1)..MaxWindow, WindowEndTime : (-1)..MaxWindow,
   ExtraZeroPadPowers : 0..MaxExtra]

RECURSIVE Pow2(_)
Pow2(k) == IF k = 0 THEN 1 ELSE 2 * Pow2(k - 1)

RECURSIVE CeilLog2From(_, _)
CeilLog2From(n, k) == IF Pow2(k) >= n THEN k ELSE CeilLog2From(n, k + 1)

\* A plausible slip: the logarithm rounded down.
FloorLog2(n) ==
  IF Pow2(CeilLog2From(n, 0)) = n THEN CeilLog2From(n, 0)
  ELSE CeilLog2From(n, 0) - 1

\* ceil(log2(n)) for n >= 1
CeilLog2(n) == CeilLog2From(n, 0)

\* (unsigned int)(std::floor((W.T().back()-W.T(0))/Dt))
N1Of(a) == a.span \div a.Dt

\* The values NPow can take: ceil(log2(N1)) + ExtraZeroPadPowers; for N1 = 0
\* the double is -infinity and its conversion to unsigned int is undefined.
NPowChoices(a) ==
  IF N1Of(a) >= 1 THEN {CeilLog2(N1Of(a)) + a.ExtraZeroPadPowers}
  ELSE 0..MaxUBPow

\* NewTimes[i] = W.T(0) + i*Dt for i < N2 (1-based here)
ResampledTimes(a, N2) == [i \in 1..N2 |-> a.T0 + (i - 1) * a.Dt]

\* A plausible slip: equal window times are let through.
WindowOrderFailsStrict(b, e) == b > e

\* if(WindowBeginTime >= WindowEndTime)
WindowOrderFails(b, e) == b >= e

\* if(WindowEndTime < NewTimes[0] || WindowEndTime > NewTimes.back())
WindowEndOutOfRange(e, NT) == e < NT[1] \/ e > NT[Len(NT)]

\* if(WindowBeginTime < NewTimes[0] || WindowBeginTime > NewTimes.back())
WindowBeginOutOfRange(b, NT) == b < NT[1] \/ b > NT[Len(NT)]

\* A plausible slip: the disabled constructor refuses only a positive
\* WindowNCycles and otherwise yields an object.
OldConstructorOutcomeByCycles(a) ==
  IF a.WindowNCycles > 0
  THEN [pc |-> "thrown", err |-> [thrown |-> "NotYetImplemented", at |-> 0],
        obj |-> NoObject]
  ELSE [pc |-> "done", err |-> NoError,
        obj |-> [built |-> TRUE, mDt |-> a.Dt, mNormalized |-> FALSE]]

\* The old constructor: the member initialisers, the message, the throw.
OldConstructorOutcome(a) ==
  [pc |-> "thrown", err |-> [thrown |-> "NotYetImplemented", at |-> 0],
   obj |-> NoObject]

FTCallOld ==
  /\ ftPc = "idle"
  /\ \E a \in OldArgs :
       LET r == OldConstructorOutcome(a)
       IN  /\ ftIn' = a
           /\ ftPc' = r.pc
           /\ ftErr' = r.err
           /\ ftObj' = r.obj
  /\ UNCHANGED <<NewTimes, RealT, InitRealT, winJ, mFreqs>>
  /\ FTFrame

FTCallNew ==
  /\ ftPc = "idle"
  /\ \E a \in NewArgs : ftIn' = a
  /\ ftPc' = "checkDirection"
  /\ UNCHANGED <<NewTimes, RealT, InitRealT, winJ, mFreqs, ftErr, ftObj>>
  /\ FTFrame

\* if(Direction.size() != 2) throw(GWFrames_VectorSizeMismatch)
FTCheckDirection ==
  /\ ftPc = "checkDirection"
  /\ IF ftIn.dirSize # 2
     THEN /\ ftPc' = "thrown"
          /\ ftErr' = [thrown |-> "VectorSizeMismatch", at |-> 1]
     ELSE /\ ftPc' = "resample"
          /\ UNCHANGED ftErr
  /\ UNCHANGED <<ftIn, NewTimes, RealT, InitRealT, winJ, mFreqs, ftObj>>
  /\ FTFrame

\* N1, NPow, N2 and the loop filling NewTimes
FTResample ==
  /\ ftPc = "resample"
  /\ \E NPow \in NPowChoices(ftIn) :
       NewTimes' = ResampledTimes(ftIn, Pow2(NPow))
  /\ ftPc' = "checkWindow"
  /\ UNCHANGED <<ftIn, RealT, InitRealT, winJ, mFreqs, ftErr, ftObj>>
  /\ FTFrame

FTCheckWindowOrder ==
  /\ ftPc = "checkWindow"
  /\ IF WindowOrderFails(ftIn.WindowBeginTime, ftIn.WindowEndTime)
     THEN /\ ftPc' = "thrown"
          /\ ftErr' = [thrown |-> "EmptyIntersection", at |-> 2]
     ELSE /\ ftPc' = "checkEnd"
          /\ UNCHANGED ftErr
  /\ UNCHANGED <<ftIn, NewTimes, RealT, InitRealT, winJ, mFreqs, ftObj>>
  /\ FTFrame

FTCheckWindowEnd ==
  /\ ftPc = "checkEnd"
  /\ IF WindowEndOutOfRange(ftIn.WindowEndTime, NewTimes)
     THEN /\ ftPc' = "thrown"
          /\ ftErr' = [thrown |-> "EmptyIntersection", at |-> 3]
     ELSE /\ ftPc' = "checkBegin"
          /\ UNCHANGED ftErr
  /\ UNCHANGED <<ftIn, NewTimes, RealT, InitRealT, winJ, mFreqs, ftObj>>
  /\ FTFrame

FTCheckWindowBegin ==
  /\ ftPc = "checkBegin"
  /\ IF WindowBeginOutOfRange(ftIn.WindowBeginTime, NewTimes)
     THEN /\ ftPc' = "thrown"
          /\ ftErr' = [thrown |-> "EmptyIntersection", at |-> 4]
     ELSE /\ ftPc' = "interpolate"
          /\ UNCHANGED ftErr
  /\ UNCHANGED <<ftIn, NewTimes, RealT, InitRealT, winJ, mFreqs, ftObj>>
  /\ FTFrame

\* A value of BumpFunction: 0.0 (num = 0), 1.0 (num = den), or, strictly
\* between the two, the value of 1/(1+exp(1/t-1/(1-t))) at t = num/den.
BumpZero == [num |-> 0, den |-> 1]

BumpOne == [num |-> 1, den |-> 1]

BumpFunction(x, x0, x1) ==
  IF x <= x0 THEN BumpZero
  ELSE IF x >= x1 THEN BumpOne
  ELSE [num |-> x - x0, den |-> x1 - x0]

\* A time-domain datum: the sample h times the bump values in w that are
\* neither 0.0 nor 1.0; dft marks a slot that realdft has overwritten.
Sample(h) == [h |-> h, w |-> <<>>, dft |-> FALSE]

\* x * b for a datum x and a bump value b (x *= 0.0 is 0.0, x *= 1.0 is x)
Times(x, b) ==
  IF b.num = 0 THEN Sample(0)
  ELSE IF b.num = b.den THEN x
  ELSE IF x.h = 0 THEN x
  ELSE [x EXCEPT !.w = Append(@, <<b.num, b.den>>)]

\* A plausible slip: the loop stops once WindowBeginTime is passed.
WindowLoopBreaksAtBegin(t, b, e) == t >= b

\* if (NewTimes[j] >= WindowEndTime) { break; }
WindowLoopBreaks(t, b, e) == t >= e

\* WU::realdft(RealT): the transform in place, the size kept
realdft(x) == [k \in 1..Len(x) |-> [x[k] EXCEPT !.dft = TRUE]]

\* W2 = W.Interpolate(NewTimes, true); InitRealT from W2.EvaluateAtPoint: one
\* sample per resampled time; RealT = InitRealT (the detector response with
\* amplitude 1 and phase 0).
FTInterpolate ==
  /\ ftPc = "interpolate"
  /\ \E h \in 0..MaxSample :
       InitRealT' = [k \in 1..Len(NewTimes) |-> Sample(h + (k % 2))]
  /\ RealT' = InitRealT'
  /\ winJ' = 0
  /\ ftPc' = "window"
  /\ UNCHANGED <<ftIn, NewTimes, mFreqs, ftErr, ftObj>>
  /\ FTFrame

\* One pass of for(unsigned int j=0; j<NewTimes.size(); j++): RealT[j] *=
\* BumpFunction(...), then the break test (sequences are 1-based here).
FTWindowStep ==
  /\ ftPc = "window"
  /\ IF winJ < Len(NewTimes)
     THEN /\ RealT' = [RealT EXCEPT ![winJ + 1] =
                 Times(@, BumpFunction(NewTimes[winJ + 1],
                                       ftIn.WindowBeginTime,
                                       ftIn.WindowEndTime))]
          /\ IF WindowLoopBreaks(NewTimes[winJ + 1], ftIn.WindowBeginTime,
                                 ftIn.WindowEndTime)
             THEN ftPc' = "frequencies" /\ UNCHANGED winJ
             ELSE winJ' = winJ + 1 /\ UNCHANGED ftPc
     ELSE /\ ftPc' = "frequencies"
          /\ UNCHANGED <<RealT, winJ>>
  /\ UNCHANGED <<ftIn, NewTimes, InitRealT, mFreqs, ftErr, ftObj>>
  /\ FTFrame

\* mFreqs = WU::TimeToPositiveFrequencies(PhysicalTimes): a routine outside
\* this code; the constructor relies on nothing about its size.
FTFrequencies ==
  /\ ftPc = "frequencies"
  /\ \E nf \in {Len(NewTimes) \div 2, Len(NewTimes) \div 2 + 1} : mFreqs' = nf
  /\ ftPc' = "transform"
  /\ UNCHANGED <<ftIn, NewTimes, RealT, InitRealT, winJ, ftErr, ftObj>>
  /\ FTFrame

\* WU::realdft(RealT), the size check, mRealF and mImagF, to the end of the
\* constructor
FTTransform ==
  /\ ftPc = "transform"
  /\ RealT' = realdft(RealT)
  /\ IF mFreqs # Len(RealT') \div 2 + 1
     THEN /\ ftPc' = "thrown"
          /\ ftErr' = [thrown |-> "VectorSizeMismatch", at |-> 5]
          /\ UNCHANGED ftObj
     ELSE /\ ftPc' = "done"
          /\ ftObj' = [built |-> TRUE, mDt |-> ftIn.Dt, mNormalized |-> FALSE,
                       NFreq |-> mFreqs]
          /\ UNCHANGED ftErr
  /\ UNCHANGED <<ftIn, NewTimes, InitRealT, winJ, mFreqs>>
  /\ FTFrame

-----------------------------------------------------------------------------
(* WaveformAtAPointFT: Normalize and Match *)

MaxNPow   == 2   \* a waveform has 2^k/2 + 1 frequencies, k in 1..MaxNPow
MaxDfStep == 2   \* the frequency step is EpsInv + 0..MaxDfStep units
MaxMag    == 2   \* correlation magnitudes are 0..MaxMag

\* 1/eps for const double eps = 1e-8
EpsInv == 100000000

\* NFreq() of a constructed waveform: mFreqs.size() = N2/2 + 1 with N2 a
\* power of two; N2 = 1 never passes the window checks.
ConstructibleNFreq == {Pow2(k) \div 2 + 1 : k \in 1..MaxNPow}

\* F(1)-F(0), in units in which 1e-8 of a step is one unit
DfValues == {EpsInv + d : d \in 0..MaxDfStep}

\* The waveforms the constructor yields: mNormalized(false); scalings counts
\* the divisions of mRealF and mImagF by an SNR.
ConstructedWaveforms ==
  [built : {TRUE}, NFreq : ConstructibleNFreq, df : DfValues,
   mNormalized : {FALSE}, scalings : {0}]

\* An output argument the caller has not assigned
Unset == [set |-> FALSE]

NoMatchCall == [op |-> "none"]

Abs(x) == IF x < 0 THEN -x ELSE x

\* A plausible slip: the InversePSD size goes unchecked.
MatchSizesFailWaveformsOnly(n, nB, nPSD) == n # nB

\* if(n != B.NFreq() || n != InversePSD.size())
MatchSizesFail(n, nB, nPSD) == n # nB \/ n # nPSD

\* rel_diff_df = std::fabs(1 - df/df_B); if(rel_diff_df > eps)
RelDiffExceedsEps(df, df_B) == Abs(df_B - df) * EpsInv > df_B

\* The magnitudes of data after idft(data), indices 0..N-1: the maximum at
\* one or two places over a lower background.
Correlations(N) ==
  {[i \in 0..(N - 1) |-> IF i \in {k1, k2} THEN MaxMag ELSE i % MaxMag] :
     k1 \in 0..(N - 1), k2 \in 0..(N - 1)}

\* A plausible slip: a later equal magnitude replaces the peak.
MagExceedsOrEquals(mag, maxmag) == mag >= maxmag

\* if(mag>maxmag)
MagExceeds(mag, maxmag) == mag > maxmag

\* for(unsigned int i=1; i<N; ++i) { ... maxmag = mag; maxi = int(i); }
RECURSIVE PeakSearchFrom(_, _, _, _, _)
PeakSearchFrom(data, N, i, maxi, maxmag) ==
  IF i >= N THEN [maxi |-> maxi, maxmag |-> maxmag]
  ELSE IF MagExceeds(data[i], maxmag)
       THEN PeakSearchFrom(data, N, i + 1, i, data[i])
       ELSE PeakSearchFrom(data, N, i + 1, maxi, maxmag)

\* unsigned int maxi=0; double maxmag = |data(0)|; then the loop
PeakSearch(data, N) == PeakSearchFrom(data, N, 1, 0, data[0])

\* timeOffset = (maxi<N/2 ? double(maxi)/(N*df) : -double(N-maxi)/(N*df)),
\* kept as the signed number of samples over N*df
TimeOffsetOf(maxi, N, df) ==
  [set |-> TRUE, samples |-> IF maxi < N \div 2 THEN maxi ELSE -(N - maxi),
   N |-> N, df |-> df]

\* phaseOffset = atan2(data.imag(maxi), data.real(maxi))/2.0
PhaseOffsetOf(maxi) == [set |-> TRUE, halfArgAt |-> maxi]

\* match = 4.0*df*maxmag, kept as its factors
MatchOf(df, maxmag) == [set |-> TRUE, four |-> 4, df |-> df, maxmag |-> maxmag]

\* Normalize(InversePSD) on waveform w: [w, err]
NormalizeOutcome(w, nPSD) ==
  IF w.mNormalized THEN [w |-> w, err |-> "none"]
  ELSE IF w.NFreq # nPSD THEN [w |-> w, err |-> "VectorSizeMismatch"]
  ELSE [w |-> [w EXCEPT !.mNormalized = TRUE, !.scalings = @ + 1],
        err |-> "none"]

\* The new constructor, from its call to its return, for the waveform Match
\* is called on
MatchConstructThis ==
  /\ ~wA.built
  /\ \E w \in ConstructedWaveforms : wA' = w
  /\ UNCHANGED <<wB, timeOffset, phaseOffset, match, matchCall>>
  /\ MatchFrame

\* The new constructor, from its call to its return, for the waveform B
MatchConstructOther ==
  /\ ~wB.built
  /\ \E w \in ConstructedWaveforms : wB' = w
  /\ UNCHANGED <<wA, timeOffset, phaseOffset, match, matchCall>>
  /\ MatchFrame

\* wA.Normalize(InversePSD)
MatchNormalizeThis(nPSD) ==
  /\ wA.built
  /\ LET r == NormalizeOutcome(wA, nPSD)
     IN  /\ wA' = r.w
         /\ matchCall' = [op |-> "Normalize", on |-> "this", nPSD |-> nPSD,
                          err |-> r.err]
  /\ UNCHANGED <<wB, timeOffset, phaseOffset, match>>
  /\ MatchFrame

\* wB.Normalize(InversePSD)
MatchNormalizeOther(nPSD) ==
  /\ wB.built
  /\ LET r == NormalizeOutcome(wB, nPSD)
     IN  /\ wB' = r.w
         /\ matchCall' = [op |-> "Normalize", on |-> "B", nPSD |-> nPSD,
                          err |-> r.err]
  /\ UNCHANGED <<wA, timeOffset, phaseOffset, match>>
  /\ MatchFrame

\* wA.Match(wB, InversePSD, timeOffset, phaseOffset, match); the call record
\* keeps the arguments as passed
Match(nPSD) ==
  /\ wA.built /\ wB.built
  /\ LET n == wA.NFreq
         N == 2 * (n - 1)
         df == wA.df
         df_B == wB.df
         passed == [op |-> "Match", this |-> wA, B |-> wB, nPSD |-> nPSD,
                    prior |-> <<timeOffset, phaseOffset, match>>,
                    warned |-> ~wA.mNormalized \/ ~wB.mNormalized]
     IN  IF MatchSizesFail(n, wB.NFreq, nPSD) \/ RelDiffExceedsEps(df, df_B)
         THEN /\ matchCall' = [err |-> "VectorSizeMismatch", data |-> <<>>]
                                @@ passed
              /\ UNCHANGED <<timeOffset, phaseOffset, match>>
         ELSE \E data \in Correlations(N) :
                LET peak == PeakSearch(data, N)
                IN  /\ timeOffset' = TimeOffsetOf(peak.maxi, N, df)
                    /\ phaseOffset' = PhaseOffsetOf(peak.maxi)
                    /\ match' = MatchOf(df, peak.maxmag)
                    /\ matchCall' = [err |-> "none", data |-> data] @@ passed
  /\ UNCHANGED <<wA, wB>>
  /\ MatchFrame

-----------------------------------------------------------------------------
(* Specifications *)

Init ==
  /\ slice = SliceInit
  /\ retC = NoCall
  /\ retM = NoCall
  /\ grid = DataGridOfSize(0)
  /\ modes = ModesOfSize(0)
  /\ powReq = NoPow
  /\ scri = NoScri
  /\ scriRefs = {}
  /\ sm = NoSM
  /\ smRefs = {}
  /\ OneOverK = 0
  /\ delta = 0
  /\ call = NoCallYet
  /\ ftIn = NoFTArgs
  /\ ftPc = "idle"
  /\ NewTimes = <<>>
  /\ RealT = <<>>
  /\ InitRealT = <<>>
  /\ winJ = 0
  /\ mFreqs = 0
  /\ ftErr = NoError
  /\ ftObj = NoObject
  /\ wA = NoObject
  /\ wB = NoObject
  /\ timeOffset = Unset
  /\ phaseOffset = Unset
  /\ match = Unset
  /\ matchCall = NoMatchCall

NextSlice ==
  \/ \E i \in 0..MaxIndex : IndexConst(i)
  \/ \E i \in 0..MaxIndex : IndexMutable(i)
  \/ \E v \in Val : SliceWriteRef(v)

NextGrid ==
  \/ \E size \in 0..MaxSize : GridConstruct(size)
  \/ GridCopy
  \/ \E ess \in (-MaxSpin)..MaxSpin : GridSetSpin(ess)
  \/ \E n \in (-1)..MaxDim : GridSetNTheta(n)
  \/ \E n \in (-1)..MaxDim : GridSetNPhi(n)

NextModes ==
  \/ \E size \in 0..MaxSize : ModesConstruct(size)
  \/ ModesCopy
  \/ \E ess \in (-MaxSpin)..MaxSpin : ModesSetSpin(ess)
  \/ \E ell \in (-1)..MaxEll : ModesSetEllMax(ell)
  \/ \E p \in (-MaxP)..MaxP : ModesPow(p)

NextScri ==
  \/ ScriConstruct
  \/ ScriCopy
  \/ ScriNTimes
  \/ ScriT
  \/ \E i \in 1..(MaxTime + 1) : ScriIndexConst(i)
  \/ \E i \in 1..(MaxTime + 1) : ScriIndexMutable(i)
  \/ \E d \in Val : ScriUseReturned(d)
  \/ \E b \in BOOLEAN, d \in Val : ScriBMSTransformation(b, d)
  \/ \E i \in 1..(MaxTime + 1), k \in Val, d \in Val :
       SliceMoreschiIteration(i, k, d)
  \/ \E size \in 0..(MaxTime + 1) : SMConstructSize(size)
  \/ SMConstructVectors
  \/ SMConstructScri
  \/ SMCopy
  \/ SMNTimes
  \/ SMT
  \/ \E i \in 1..(MaxTime + 1) : SMIndexConst(i)
  \/ \E i \in 1..(MaxTime + 1) : SMIndexMutable(i)
  \/ \E d \in Val : SMUseReturned(d)
  \/ \E d \in Val : SMBMSTransform(d)
  \/ \E k \in Val, d \in Val : SMMoreschiIteration(k, d)

NextFT ==
  \/ FTCallOld
  \/ FTCallNew
  \/ FTCheckDirection
  \/ FTResample
  \/ FTCheckWindowOrder
  \/ FTCheckWindowEnd
  \/ FTCheckWindowBegin
  \/ FTInterpolate
  \/ FTWindowStep
  \/ FTFrequencies
  \/ FTTransform

\* Every operation of every family; each family is checked under its own
\* specification below.
NextMatch ==
  \/ MatchConstructThis
  \/ MatchConstructOther
  \/ \E nPSD \in 1..(Pow2(MaxNPow) \div 2 + 2) : MatchNormalizeThis(nPSD)
  \/ \E nPSD \in 1..(Pow2(MaxNPow) \div 2 + 2) : MatchNormalizeOther(nPSD)
  \/ \E nPSD \in 1..(Pow2(MaxNPow) \div 2 + 2) : Match(nPSD)

Next == NextSlice \/ NextGrid \/ NextModes \/ NextScri \/ NextFT \/ NextMatch

SpecSlice == Init /\ [][NextSlice]_vars

SpecGrid == Init /\ [][NextGrid]_vars

SpecModes == Init /\ [][NextModes]_vars

SpecScri == Init /\ [][NextScri]_vars

SpecFT == Init /\ [][NextFT]_vars

SpecMatch == Init /\ [][NextMatch]_vars

-----------------------------------------------------------------------------
(* Properties *)

\* C1: both overloads of SliceOfScri::operator[] return psi0, psi1, psi2,
\* psi3, psi4, sigma, sigmadot for i = 0..6, throw IndexOutOfBounds (and
\* return no field) for every i >= 7, and agree on every index.
C1_IndexContract ==
  /\ \A r \in {retC, retM} :
       r.called =>
         /\ r.idx <= 6 => r.kind = "ref" /\ r.what = FieldNames[r.idx + 1]
         /\ r.idx >= 7 => r.kind = "throw" /\ r.what = "IndexOutOfBounds"
  /\ (retC.called /\ retM.called /\ retC.idx = retM.idx) => retC = retM

\* Index 7 has been requested from both overloads, and both threw.
C1_IndexSevenThrows ==
  /\ retC.called /\ retC.idx = 7 /\ retC.kind = "throw"
  /\ retM.called /\ retM.idx = 7 /\ retM.kind = "throw"

\* C2: every DataGrid reachable through DataGrid(size), the copy constructor
\* and SetSpin / SetNTheta / SetNPhi stores exactly n_theta * n_phi samples.
C2_GridSampleCount == grid.size = grid.n_theta * grid.n_phi

\* C3: every Modes reachable through Modes(size), the copy constructor and
\* SetSpin / SetEllMax has ellMax >= 0 and stores (ellMax+1)^2 coefficients.
C3_ModesLength ==
  /\ modes.ellMax >= 0
  /\ modes.size = (modes.ellMax + 1) * (modes.ellMax + 1)

\* C4: for every ellMax >= 0 and every integer p, Modes::pow(p) requests a
\* square grid with n_theta = n_phi = N, N = 2*ellMax*p + 1, which meets the
\* sampling bound N >= 2*(ellMax*p) + 1 and is a valid dimension, N >= 1.
C4_PowGridValid ==
  (powReq.called /\ powReq.ellMax >= 0) =>
    /\ powReq.n_theta = powReq.n_phi
    /\ powReq.n_theta = 2 * powReq.ellMax * powReq.p + 1
    /\ powReq.n_theta >= 2 * (powReq.ellMax * powReq.p) + 1
    /\ powReq.n_theta >= 1

\* C5 as stated: no public operation on a built Scri or SuperMomenta changes
\* its stored times or its stored slices / mode fields.
C5_ReadOnly ==
  [][/\ (scri.built /\ scri'.built) => scri' = scri
     /\ (sm.built /\ sm'.built) => sm' = sm]_vars

\* C5 as amended: no public operation changes the stored times or the number
\* of slices / mode fields, and a stored slice / mode field changes only
\* after the non-const operator[] has handed out a reference to it.
C5_ReadOnlyExceptThroughReference ==
  [][/\ (scri.built /\ scri'.built) =>
          /\ scri'.t = scri.t
          /\ Len(scri'.slices) = Len(scri.slices)
          /\ \A i \in 1..Len(scri.slices) :
               scri'.slices[i] # scri.slices[i] => i \in scriRefs
     /\ (sm.built /\ sm'.built) =>
          /\ sm'.t = sm.t
          /\ Len(sm'.Psi) = Len(sm.Psi)
          /\ \A i \in 1..Len(sm.Psi) :
               sm'.Psi[i] # sm.Psi[i] => i \in smRefs]_vars

\* A Scri of two slices: the first was changed through a reference (slices
\* are built with data token 0), the second was read through the const
\* overload and the caller changed its copy.
C5_OneSliceWritten ==
  /\ scri.built /\ Len(scri.slices) = 2
  /\ scriRefs = {1}
  /\ scri.slices[1].val # 0
  /\ scri.slices[2].val = 0
  /\ call.op = "Scri.WriteCopy" /\ call.idx = 2 /\ call.ret.v.val # 0

\* C6: a MoreschiIteration call on a SuperMomenta or a SliceModes leaves the
\* object it is called on (and every other object) as it was, returns
\* nothing, and changes at most its two by-reference arguments.
C6_MoreschiFrame ==
  [][call'.op \in {"SuperMomenta.MoreschiIteration",
                   "SliceModes.MoreschiIteration"}
       => /\ sm' = sm
          /\ scri' = scri
          /\ call'.ret = Void
          /\ UNCHANGED <<scriRefs, smRefs>>
          /\ UNCHANGED <<sliceVars, gridVars, modesVars, ftVars>>]_vars

\* MoreschiIteration has just run on a non-empty SuperMomenta and has
\* changed both of its arguments.
C6_BothArgumentsUpdated ==
  /\ call.op = "SuperMomenta.MoreschiIteration"
  /\ sm.built /\ Len(sm.Psi) > 0
  /\ OneOverK = 1 /\ delta = 1

\* C7: every SuperMomenta produced by a public constructor stores as many
\* times as mode fields.
C7_TimesMatchModes == sm.built => Len(sm.t) = Len(sm.Psi)

\* C8: the constructor taking Vartheta, Varphi and WindowNCycles throws
\* NotYetImplemented for every combination of arguments and yields no object.
C8_OldConstructorDisabled ==
  ftIn.ctor = "old" =>
    /\ ftPc = "thrown"
    /\ ftErr.thrown = "NotYetImplemented"
    /\ ~ftObj.built

\* The old constructor was called with WindowNCycles = 0 and
\* ExtraZeroPadPowers = 0, and threw.
C8_OldConstructorCalled ==
  /\ ftIn.ctor = "old"
  /\ ftIn.WindowNCycles = 0 /\ ftIn.ExtraZeroPadPowers = 0
  /\ ftPc = "thrown"

\* C9: the Scri constructor succeeds exactly when the six histories have the
\* same (strictly increasing) time array; if they differ in length or in
\* values it raises a shape-mismatch error and builds nothing; on success
\* NTimes() is the common number of times and all slices share one ellMax.
C9_ScriConstruction ==
  call.op = "Scri" =>
    LET Ts == call.args
        Differ == \E j, k \in 1..6 : Len(Ts[j]) # Len(Ts[k]) \/ Ts[j] # Ts[k]
    IN  /\ Differ => call.err = "ShapeMismatch" /\ ~scri.built
        /\ ~Differ => call.err = "none" /\ scri.built
        /\ scri.built =>
             /\ \A k \in 1..6 : scri.t = Ts[k]
             /\ StrictlyIncreasing(scri.t)
             /\ Len(scri.t) = Len(Ts[1])
             /\ Len(scri.slices) = Len(scri.t)
             /\ \A i, j \in 1..Len(scri.slices) :
                  scri.slices[i].ellMax = scri.slices[j].ellMax

\* The six histories have time arrays of one length but different values,
\* and the constructor refused them.
C9_SameLengthDifferentTimes ==
  /\ call.op = "Scri"
  /\ \A k \in 1..6 : Len(call.args[k]) = 1
  /\ call.args[1] # call.args[6]
  /\ call.err = "ShapeMismatch"

\* C10: the new constructor validates before it interpolates, in the order
\* (1) Direction.size() != 2 -> VectorSizeMismatch, (2) WindowBeginTime >=
\* WindowEndTime, (3) WindowEndTime outside [NewTimes[0], NewTimes.back()],
\* (4) WindowBeginTime outside it -> EmptyIntersection; the first failing
\* check decides; past the checks, WindowBeginTime < WindowEndTime and both
\* lie in the resampled range.
C10_ValidationOrder ==
  ftIn.ctor = "new" =>
    LET b == ftIn.WindowBeginTime
        e == ftIn.WindowEndTime
        lo == NewTimes[1]
        hi == NewTimes[Len(NewTimes)]
        Inside(x) == lo <= x /\ x <= hi
        BadDir == ftIn.dirSize # 2
    IN  /\ ftPc = "thrown" /\ ftErr.at # 5 =>
             /\ RealT = <<>>
             /\ ~ftObj.built
             /\ ftErr.at \in 1..4
             /\ ftErr.at = 1 <=> BadDir
             /\ ftErr.at = 2 <=> ~BadDir /\ b >= e
             /\ ftErr.at = 3 <=> ~BadDir /\ b < e /\ ~Inside(e)
             /\ ftErr.at = 4 <=> ~BadDir /\ b < e /\ Inside(e) /\ ~Inside(b)
             /\ ftErr.thrown = IF ftErr.at = 1 THEN "VectorSizeMismatch"
                                ELSE "EmptyIntersection"
        /\ ftPc \in {"checkDirection", "resample", "checkWindow", "checkEnd",
                     "checkBegin", "interpolate"} => RealT = <<>>
        /\ (ftPc \in {"interpolate", "window", "frequencies", "transform",
                      "done"}
            \/ (ftPc = "thrown" /\ ftErr.at = 5)) =>
             ~BadDir /\ b < e /\ Inside(b) /\ Inside(e)

\* Both window times are out of range and in order: check (3) threw, though
\* check (4) would have failed too.
C10_EndCheckedBeforeBegin ==
  /\ ftIn.ctor = "new" /\ ftPc = "thrown" /\ ftErr.at = 3
  /\ ftIn.WindowBeginTime < ftIn.WindowEndTime
  /\ WindowBeginOutOfRange(ftIn.WindowBeginTime, NewTimes)

\* C11: with the resampled times strictly increasing, the window loop, which
\* stops at the first time >= WindowEndTime, leaves RealT equal to every
\* sample j multiplied by BumpFunction(NewTimes[j], WindowBeginTime,
\* WindowEndTime); every sample at a time <= WindowBeginTime is zero and
\* every sample at a time >= WindowEndTime is as interpolated.
C11_WindowLoopIsFullProduct ==
  (/\ ftPc \in {"frequencies", "transform"}
   /\ \A k \in 1..(Len(NewTimes) - 1) : NewTimes[k] < NewTimes[k + 1]) =>
    LET b == ftIn.WindowBeginTime
        e == ftIn.WindowEndTime
    IN  /\ RealT = [k \in 1..Len(NewTimes) |->
                      Times(InitRealT[k], BumpFunction(NewTimes[k], b, e))]
        /\ \A k \in 1..Len(NewTimes) :
             /\ NewTimes[k] <= b => RealT[k] = Sample(0)
             /\ NewTimes[k] >= e => RealT[k] = InitRealT[k]

\* The loop has stopped early, leaving samples after WindowEndTime that it
\* never visited; a sample before WindowBeginTime was zeroed and a sample
\* inside the window was scaled.
C11_LoopStoppedEarly ==
  /\ ftPc = "frequencies"
  /\ winJ + 1 < Len(NewTimes)
  /\ \E k \in 1..Len(NewTimes) :
       NewTimes[k] <= ftIn.WindowBeginTime /\ InitRealT[k].h # 0
  /\ \E k \in 1..Len(NewTimes) : RealT[k].w # <<>>

\* C12: in the new constructor with N1 = floor((last time - first time)/Dt)
\* >= 1, the number of resampled points N2 is the power of two
\* 2^(ceil(log2 N1) + ExtraZeroPadPowers): N2 >= N1 and N2 is the smallest
\* power of two >= N1 times 2^ExtraZeroPadPowers; the resampled times are
\* T(0) + i*Dt for i = 0..N2-1; an object is constructed only with N2/2 + 1
\* frequencies, and any other number of frequencies raises
\* VectorSizeMismatch.
C12_ResamplingLength ==
  (/\ ftIn.ctor = "new"
   /\ ftIn.span \div ftIn.Dt >= 1
   /\ ftPc \notin {"idle", "checkDirection", "resample"}
   /\ ~(ftPc = "thrown" /\ ftErr.at = 1)) =>
    LET N1 == ftIn.span \div ftIn.Dt
        N2 == Len(NewTimes)
        X  == ftIn.ExtraZeroPadPowers
    IN  /\ \E k \in 0..N1 :
             /\ Pow2(k) >= N1
             /\ k > 0 => Pow2(k - 1) < N1
             /\ N2 = Pow2(k) * Pow2(X)
             /\ N2 = Pow2(k + X)
        /\ N2 >= N1
        /\ \A i \in 0..(N2 - 1) : NewTimes[i + 1] = ftIn.T0 + i * ftIn.Dt
        /\ ftPc = "done" =>
             ftObj.built /\ ftObj.NFreq = N2 \div 2 + 1 /\ mFreqs = N2 \div 2 + 1
        /\ ftPc = "thrown" /\ ftErr.at = 5 =>
             /\ mFreqs # N2 \div 2 + 1
             /\ ftErr.thrown = "VectorSizeMismatch"
             /\ ~ftObj.built

\* An object built from N1 = 3 with one extra power of two: N2 = 8 points
\* and 5 frequencies.
C12_ThreeRoundedUpAndPadded ==
  /\ ftIn.ctor = "new" /\ ftPc = "done"
  /\ ftIn.span \div ftIn.Dt = 3
  /\ ftIn.ExtraZeroPadPowers = 1
  /\ Len(NewTimes) = 8
  /\ ftObj.NFreq = 5

\* C13: when Match computes, with n stored frequencies and N = 2*(n-1), the
\* chosen index maxi is the smallest index in 0..N-1 whose correlation
\* magnitude is maximal; timeOffset is maxi/(N*df) when maxi < N/2 and
\* -(N-maxi)/(N*df) otherwise, so the signed shift in samples lies in
\* [-N/2, N/2 - 1]; and match = 4*df*(that maximal magnitude).
C13_PeakSelection ==
  (matchCall.op = "Match" /\ matchCall.err = "none") =>
    LET n == matchCall.this.NFreq
        N == 2 * (n - 1)
        df == matchCall.this.df
        data == matchCall.data
    IN  \E maxi \in 0..(N - 1) :
          /\ \A i \in 0..(N - 1) : data[i] <= data[maxi]
          /\ \A i \in 0..(maxi - 1) : data[i] < data[maxi]
          /\ timeOffset.N = N /\ timeOffset.df = df
          /\ maxi < N \div 2 => timeOffset.samples = maxi
          /\ maxi >= N \div 2 => timeOffset.samples = -(N - maxi)
          /\ timeOffset.samples \in (-(N \div 2))..(N \div 2 - 1)
          /\ match.four = 4 /\ match.df = df /\ match.maxmag = data[maxi]

\* Two equal maxima, the first of them in the upper half of the indices: the
\* shift is negative.
C13_TieInUpperHalf ==
  /\ matchCall.op = "Match" /\ matchCall.err = "none"
  /\ \E i, k \in DOMAIN matchCall.data :
       /\ i < k
       /\ matchCall.data[i] = MaxMag /\ matchCall.data[k] = MaxMag
       /\ \A m \in DOMAIN matchCall.data : m < i => matchCall.data[m] < MaxMag
       /\ i >= (2 * (matchCall.this.NFreq - 1)) \div 2
  /\ timeOffset.samples < 0

\* C14: Match raises VectorSizeMismatch exactly when the number of
\* frequencies of this waveform differs from that of B or from
\* InversePSD.size(), or the two frequency steps differ by a relative amount
\* above 1e-8, and then the three output arguments keep the values they had
\* before the call; waveforms that are not normalized only cause a warning
\* and the match is still computed; both waveforms are left unchanged.
C14_MatchErrors ==
  matchCall.op = "Match" =>
    LET a == matchCall.this
        b == matchCall.B
        Mismatch == \/ a.NFreq # b.NFreq
                    \/ a.NFreq # matchCall.nPSD
                    \/ Abs(b.df - a.df) * EpsInv > b.df
    IN  /\ matchCall.err \in {"none", "VectorSizeMismatch"}
        /\ matchCall.err = "VectorSizeMismatch" <=> Mismatch
        /\ Mismatch => <<timeOffset, phaseOffset, match>> = matchCall.prior
        /\ matchCall.warned <=> (~a.mNormalized \/ ~b.mNormalized)
        /\ ~Mismatch =>
             /\ timeOffset.set /\ phaseOffset.set /\ match.set
             /\ match.df = a.df
             /\ \A i \in DOMAIN matchCall.data : matchCall.data[i] <= match.maxmag
        /\ wA = a /\ wB = b

\* Match threw on the InversePSD size alone, after an earlier call had set
\* the outputs; neither waveform is normalized.
C14_ThrownWithOutputsSet ==
  /\ matchCall.op = "Match" /\ matchCall.err = "VectorSizeMismatch"
  /\ matchCall.this.NFreq = matchCall.B.NFreq
  /\ matchCall.this.df = matchCall.B.df
  /\ matchCall.nPSD # matchCall.this.NFreq
  /\ matchCall.prior[3].set
  /\ match.set
  /\ matchCall.warned

=============================================================================
